---------------------------- MODULE Spec2Model ----------------------------
(***************************************************************************)
(* Model of the FESL and GameSpy codecs (src/src/fesl.rs,                  *)
(* src/src/gamespy.rs).  Bytes are the integers 0..255.  Three             *)
(* specifications share the module:                                        *)
(*   Spec         the streaming framer GameSpyPacketConsumer               *)
(*   SpecGameSpy  GameSpyPacketBuilder, GameSpyPacket, GameSpyPacketIterator*)
(*   SpecFesl     FeslMessageBuilder, FeslMessage, FeslMessageIterator     *)
(***************************************************************************)
EXTENDS Integers, Sequences, FiniteSets, TLC

VARIABLES
    \* ---- GameSpyPacketConsumer (gamespy.rs 38-92)
    stream,     \* every byte the peer sends before closing (environment)
    filled,     \* bytes of stream already read into the BufReader
    consumed,   \* bytes of stream consumed from the BufReader
    pc,         \* "idle" | "loop" (inside next) | "panic" (unwrap) |
                \* "panic_index" (TERM[rank] out of bounds)
    msg,        \* next(): accumulator
    rank,       \* next(): terminator match rank
    out,        \* packets returned by next() so far (history)
    ret,        \* outcome of the last next(): "pending" | "Some" | "None"
    eof,        \* history: a zero-byte read happened in the current call
    carried,    \* history: a terminator was completed across a chunk boundary
    readErr     \* history: a read of the stream reported an error

consumerVars == <<stream, filled, consumed, pc, msg, rank, out, ret, eof,
                  carried, readErr>>

VARIABLES
    \* ---- GameSpyPacketBuilder / GameSpyPacket / GameSpyPacketIterator
    gs_len,     \* GameSpyPacketBuilder.len
    gs_buf,     \* GameSpyPacketBuilder.buf: keys and values, flattened
    gs_pushed,  \* history: the (key, value) pairs given to push
    gs_data,    \* GameSpyPacket.data (NoBytes while no packet exists)
    gs_origin,  \* history: "none" | "build" | "from_box"
    gs_src,     \* GameSpyPacketIterator.src
    gs_items,   \* history: the items returned by the iterator's next()
    gs_pc       \* "builder" | "packet" | "iter" | "end" | "sent" |
                \* "panic_into_iter" | "panic_next"

gsVars == <<gs_len, gs_buf, gs_pushed, gs_data, gs_origin, gs_src, gs_items,
            gs_pc>>

VARIABLES
    \* ---- FeslMessageBuilder / FeslMessage / FeslMessageIterator
    fesl_cmd,     \* FeslMessageBuilder.cmd
    type_and_id,  \* FeslMessageBuilder.type_and_id (u32)
    fesl_len,     \* FeslMessageBuilder.len
    fesl_buf,     \* FeslMessageBuilder.buf: the pushed (key, value) pairs
    fesl_in,      \* history: the arguments of FeslMessageBuilder::new
    fesl_wire,    \* the bytes the reader given to from_read holds
    fesl_data,    \* FeslMessage.data (NoBytes while no message exists)
    fesl_origin,  \* history: "none" | "build" | "raw": where the wire came from
    fesl_src,     \* FeslMessageIterator.src
    fesl_items,   \* history: the items returned by the iterator's next()
    fesl_got,     \* history: what get_cmd, get_type, get_id returned on the
                  \* message fesl_data (NoGot before they are called)
    fesl_pc       \* "start" | "builder" | "new_err" | "built" | "wire" |
                  \* "message" | "read_err" | "panic_from_read" | "iter" | "end"

feslVars == <<fesl_cmd, type_and_id, fesl_len, fesl_buf, fesl_in, fesl_wire,
              fesl_data, fesl_origin, fesl_src, fesl_items, fesl_got,
              fesl_pc>>

vars == <<consumerVars, gsVars, feslVars>>

----------------------------------------------------------------------------
(* Bytes *)
BSLASH == 92
CH_f == 102
CH_i == 105
CH_n == 110
CH_a == 97
CH_l == 108

\* gamespy.rs 61: const TERM: &[u8; 7] = b"\\final\\"   (0-based in the code)
TERM == <<BSLASH, CH_f, CH_i, CH_n, CH_a, CH_l, BSLASH>>
TermLen == 7

\* the value of a buffer variable while no buffer exists
NoBytes == <<-1>>

Drop(s, n) == SubSeq(s, n + 1, Len(s))
Take(s, n) == SubSeq(s, 1, n)
IsPrefix(s, t) == Len(s) <= Len(t) /\ Take(t, Len(s)) = s
EndsWithTerm(s) == Len(s) >= TermLen /\ Drop(s, Len(s) - TermLen) = TERM

----------------------------------------------------------------------------
(* Bounds of the framer's environment *)
MaxSegs == 3

Segments ==
    { TERM,
      <<120>>,                      \* a byte outside the terminator
      <<BSLASH>>,
      <<BSLASH, CH_f, CH_i, CH_n>>,
      <<BSLASH, CH_f, CH_i, CH_n, CH_a>> }

RECURSIVE SegConcat(_)
SegConcat(n) ==
    IF n = 0 THEN { <<>> }
    ELSE { s \o t : s \in Segments, t \in SegConcat(n - 1) }

Streams == UNION { SegConcat(n) : n \in 0..MaxSegs }

----------------------------------------------------------------------------
(* GameSpyPacketConsumer::next, the terminator automaton *)

\* the rank update without its `else if item == TERM[0]` branch
RankStepNoRestart(item, r) ==
    IF item = TERM[r + 1] THEN r + 1
    ELSE 0

\* gamespy.rs 70-79: one byte of the for loop; r is the rank before the byte.
RankStep(item, r) ==
    IF item = TERM[r + 1] THEN r + 1
    ELSE IF item = TERM[1] THEN 1
    ELSE 0

\* gamespy.rs 67-80: the for loop over buf from index i on; yields the number
\* of bytes examined and the rank at loop exit (break when rank >= 7).  oob:
\* TERM[rank] was evaluated with rank >= 7, an index out of bounds (a panic).
RECURSIVE ScanFrom(_, _, _)
ScanFrom(buf, i, r) ==
    IF i >= Len(buf) THEN [i |-> i, rank |-> r, oob |-> FALSE]
    ELSE IF r >= TermLen THEN [i |-> i + 1, rank |-> r, oob |-> TRUE]
    ELSE LET n == RankStep(buf[i + 1], r)
         IN  IF n >= TermLen THEN [i |-> i + 1, rank |-> n, oob |-> FALSE]
             ELSE ScanFrom(buf, i + 1, n)

\* the same scan with the rank restarted at every chunk
ScanChunkResetRank(buf, r) == ScanFrom(buf, 0, 0)

\* gamespy.rs 65-83: the scan of one fill_buf() chunk with the rank carried in
ScanChunk(buf, r) == ScanFrom(buf, 0, r)

\* the chunk handled with consume(buf.len()) in place of consume(i)
AfterChunkConsumeAll(buf, newFilled) ==
    LET s == ScanChunk(buf, rank)
    IN  /\ filled' = newFilled
        /\ consumed' = IF s.oob THEN consumed ELSE newFilled
        /\ msg' = IF s.oob THEN msg ELSE msg \o Take(buf, s.i)
        /\ rank' = s.rank
        /\ carried' = (carried \/ (rank > 0 /\ ~s.oob /\ s.rank >= TermLen))
        /\ IF s.oob
           THEN /\ pc' = "panic_index"
                /\ UNCHANGED <<ret, out>>
           ELSE IF s.rank >= TermLen
           THEN /\ pc' = "idle"
                /\ ret' = "Some"
                /\ out' = Append(out, msg \o Take(buf, s.i))
           ELSE /\ pc' = "loop"
                /\ UNCHANGED <<ret, out>>

\* gamespy.rs 81-90 after a chunk buf (stream[consumed+1 .. newFilled]):
\* extend msg, consume, return Some(packet) when rank >= 7, else loop again.
\* An index out of bounds inside the scan (gamespy.rs 70) panics before that.
AfterChunk(buf, newFilled) ==
    LET s == ScanChunk(buf, rank)
    IN  /\ filled' = newFilled
        /\ consumed' = IF s.oob THEN consumed ELSE consumed + s.i
        /\ msg' = IF s.oob THEN msg ELSE msg \o Take(buf, s.i)
        /\ rank' = s.rank
        /\ carried' = (carried \/ (rank > 0 /\ ~s.oob /\ s.rank >= TermLen))
        /\ IF s.oob
           THEN /\ pc' = "panic_index"
                /\ UNCHANGED <<ret, out>>
           ELSE IF s.rank >= TermLen
           THEN /\ pc' = "idle"
                /\ ret' = "Some"
                /\ out' = Append(out, msg \o Take(buf, s.i))
           ELSE /\ pc' = "loop"
                /\ UNCHANGED <<ret, out>>

\* next() with rank kept from the call before (a field, not a local)
CallKeepRank ==
    /\ pc = "idle"
    /\ pc' = "loop"
    /\ msg' = <<>>
    /\ ret' = "pending"
    /\ eof' = FALSE
    /\ UNCHANGED <<rank, stream, filled, consumed, out, carried, readErr>>
    /\ UNCHANGED <<gsVars, feslVars>>

\* gamespy.rs 60-63: entry of next()
Call ==
    /\ pc = "idle"
    /\ pc' = "loop"
    /\ msg' = <<>>
    /\ rank' = 0
    /\ ret' = "pending"
    /\ eof' = FALSE
    /\ UNCHANGED <<stream, filled, consumed, out, carried, readErr>>
    /\ UNCHANGED <<gsVars, feslVars>>

\* gamespy.rs 64-90, fill_buf() with bytes left in the BufReader: no read.
LoopBuffered ==
    /\ pc = "loop"
    /\ consumed < filled
    /\ AfterChunk(SubSeq(stream, consumed + 1, filled), filled)
    /\ UNCHANGED <<stream, eof, readErr>>
    /\ UNCHANGED <<gsVars, feslVars>>

\* gamespy.rs 64-90, fill_buf() on an empty BufReader: the read supplies n bytes.
LoopRead ==
    /\ pc = "loop"
    /\ consumed = filled
    /\ \E n \in 1..(Len(stream) - filled) :
          AfterChunk(SubSeq(stream, filled + 1, filled + n), filled + n)
    /\ UNCHANGED <<stream, eof, readErr>>
    /\ UNCHANGED <<gsVars, feslVars>>

\* gamespy.rs 64-90, fill_buf() on an empty BufReader at end of data: the read
\* supplies zero bytes, the for loop does not run, rank < 7, the loop repeats.
LoopEof ==
    /\ pc = "loop"
    /\ consumed = filled
    /\ filled = Len(stream)
    /\ eof' = TRUE
    /\ AfterChunk(<<>>, filled)
    /\ UNCHANGED <<stream, readErr>>
    /\ UNCHANGED <<gsVars, feslVars>>

\* gamespy.rs 66: fill_buf().unwrap() on a read error panics.
LoopReadError ==
    /\ pc = "loop"
    /\ consumed = filled
    /\ pc' = "panic"
    /\ readErr' = TRUE
    /\ UNCHANGED <<stream, filled, consumed, msg, rank, out, ret, eof, carried>>
    /\ UNCHANGED <<gsVars, feslVars>>


----------------------------------------------------------------------------
(* GameSpy packet codec: builder, packet, iterator *)

\* bytes that occur in no UTF-8 text
BadBytes == { 255 }

MaxGsPairs == 2
MaxBoxBody == 3

\* str::from_utf8 (gamespy.rs 114, fesl.rs 94) on the bytes of this model, which
\* are ASCII bytes and BadBytes: such a sequence is UTF-8 exactly when it holds
\* no byte above 0x7f.
Utf8Valid(s) == \A i \in 1..Len(s) : s[i] < 128

Pair(k, v) == [tag |-> "Pair", key |-> k, value |-> v, err |-> "none"]
ErrItem(e) == [tag |-> "Err", key |-> <<>>, value |-> <<>>, err |-> e]

\* iter().position(|&x| x == token): 0-based index of the first token in s,
\* -1 for None
RECURSIVE PositionFrom(_, _, _)
PositionFrom(s, token, i) ==
    IF i > Len(s) THEN -1
    ELSE IF s[i] = token THEN i - 1
    ELSE PositionFrom(s, token, i + 1)

Position(s, token) == PositionFrom(s, token, 1)

\* shift_slice with `Some(x) => x` in place of `Some(x) => x + 1`
GsShiftSliceOffByOne(src, token) ==
    IF Len(src) = 0
    THEN [tag |-> "Panic", err |-> "none", val |-> <<>>, src |-> src]
    ELSE IF src[1] # BSLASH
    THEN [tag |-> "Err", err |-> "ExpectedDelimiter", val |-> <<>>, src |-> src]
    ELSE LET p == Position(Drop(src, 1), token)
             x == IF p >= 0 THEN p ELSE Len(src)
         IN  [tag |-> "Ok", err |-> "none",
              val |-> SubSeq(src, 2, x), src |-> Drop(src, x)]

\* gamespy.rs 100-111: GameSpyPacketIterator::shift_slice.  src[0] on an empty
\* slice is an index out of bounds: a panic.
GsShiftSlice(src, token) ==
    IF Len(src) = 0
    THEN [tag |-> "Panic", err |-> "none", val |-> <<>>, src |-> src]
    ELSE IF src[1] # BSLASH
    THEN [tag |-> "Err", err |-> "ExpectedDelimiter", val |-> <<>>, src |-> src]
    ELSE LET p == Position(Drop(src, 1), token)
             x == IF p >= 0 THEN p + 1 ELSE Len(src)
         IN  [tag |-> "Ok", err |-> "none",
              val |-> SubSeq(src, 2, x), src |-> Drop(src, x)]

\* gamespy.rs 113-115: shift_str
GsShiftStr(src, token) ==
    LET r == GsShiftSlice(src, token)
    IN  IF r.tag = "Ok" /\ ~Utf8Valid(r.val)
        THEN [tag |-> "Err", err |-> "ExpectedUtf8", val |-> <<>>, src |-> r.src]
        ELSE r

\* gamespy.rs 117-119: read, the key first, then the value
GsRead(src) ==
    LET k == GsShiftStr(src, BSLASH)
    IN  IF k.tag # "Ok"
        THEN [tag |-> k.tag, err |-> k.err, item |-> ErrItem(k.err), src |-> k.src]
        ELSE LET v == GsShiftStr(k.src, BSLASH)
             IN  IF v.tag # "Ok"
                 THEN [tag |-> v.tag, err |-> v.err, item |-> ErrItem(v.err),
                       src |-> v.src]
                 ELSE [tag |-> "Ok", err |-> "none",
                       item |-> Pair(k.val, v.val), src |-> v.src]

\* gamespy.rs 121-124 and 130-135: Iterator::next with end() on an error
GsNextResult(src) ==
    IF Len(src) = 0
    THEN [tag |-> "None", item |-> ErrItem("none"), src |-> src]
    ELSE LET r == GsRead(src)
         IN  IF r.tag = "Panic"
             THEN [tag |-> "Panic", item |-> ErrItem("none"), src |-> src]
             ELSE IF r.tag = "Err"
             THEN [tag |-> "Some", item |-> ErrItem(r.err), src |-> <<>>]
             ELSE [tag |-> "Some", item |-> r.item, src |-> r.src]

RECURSIVE GsSerializeShortTerm(_)
\* build ending the buffer with b"final\\", without the leading backslash
GsSerializeShortTerm(buf) ==
    IF Len(buf) = 0 THEN Drop(TERM, 1)
    ELSE <<BSLASH>> \o Head(buf) \o GsSerializeShortTerm(Tail(buf))

RECURSIVE GsSerialize(_)
\* gamespy.rs 170-175: build's buffer: a backslash before every item, then the
\* terminator
GsSerialize(buf) ==
    IF Len(buf) = 0 THEN TERM
    ELSE <<BSLASH>> \o Head(buf) \o GsSerialize(Tail(buf))

\* keys and values given to push
GsStrings ==
    { <<>>, <<CH_a>>, <<CH_f, CH_i, CH_n, CH_a, CH_l>>, <<BSLASH>> }

RECURSIVE SeqsUpTo(_, _)
\* the sequences over alphabet of length at most n
SeqsUpTo(alphabet, n) ==
    IF n = 0 THEN { <<>> }
    ELSE LET shorter == SeqsUpTo(alphabet, n - 1)
         IN  shorter \cup { <<b>> \o s : b \in alphabet, s \in shorter }

\* buffers given to from_box: any bytes, with and without the terminator
Boxes ==
    { body \o tail : body \in SeqsUpTo({BSLASH, CH_a} \cup BadBytes, MaxBoxBody),
                     tail \in { TERM, <<>> } }

\* gamespy.rs 163-167: push
GsPush ==
    /\ gs_pc = "builder"
    /\ Len(gs_pushed) < MaxGsPairs
    /\ \E key \in GsStrings, value \in GsStrings :
          /\ gs_len' = gs_len + 1 + Len(key) + 1 + Len(value)
          /\ gs_buf' = gs_buf \o <<key, value>>
          /\ gs_pushed' = Append(gs_pushed, <<key, value>>)
    /\ UNCHANGED <<gs_data, gs_origin, gs_src, gs_items, gs_pc>>
    /\ UNCHANGED <<consumerVars, feslVars>>

\* gamespy.rs 169-179: build
GsBuild ==
    /\ gs_pc = "builder"
    /\ gs_data' = GsSerialize(gs_buf)
    /\ gs_origin' = "build"
    /\ gs_pc' = "packet"
    /\ UNCHANGED <<gs_len, gs_buf, gs_pushed, gs_src, gs_items>>
    /\ UNCHANGED <<consumerVars, feslVars>>

\* gamespy.rs 27-31: from_box keeps the buffer it is given
GsFromBox ==
    /\ gs_pc = "builder"
    /\ gs_buf = <<>>
    /\ \E data \in Boxes : gs_data' = data
    /\ gs_origin' = "from_box"
    /\ gs_pc' = "packet"
    /\ UNCHANGED <<gs_len, gs_buf, gs_pushed, gs_src, gs_items>>
    /\ UNCHANGED <<consumerVars, feslVars>>

\* gamespy.rs 33-35, 53: as_bytes of a built packet written to the connection,
\* alone, and read by the GameSpyPacketConsumer at the other end
GsSend ==
    /\ gs_pc = "packet"
    /\ gs_origin = "build"
    /\ stream' = gs_data
    /\ gs_pc' = "sent"
    /\ UNCHANGED <<gs_len, gs_buf, gs_pushed, gs_data, gs_origin, gs_src,
                   gs_items>>
    /\ UNCHANGED <<filled, consumed, pc, msg, rank, out, ret, eof, carried,
                   readErr>>
    /\ UNCHANGED feslVars

\* gamespy.rs 60-63: next() called on the receiving end of a sent packet
WireCall == gs_pc = "sent" /\ Call

\* gamespy.rs 142-146: into_iter; data.len() - 7 below zero panics (overflow
\* check, or the wrapped slice end out of range)
GsIntoIter ==
    /\ gs_pc = "packet"
    /\ IF Len(gs_data) < TermLen
       THEN /\ gs_pc' = "panic_into_iter"
            /\ UNCHANGED gs_src
       ELSE /\ gs_pc' = "iter"
            /\ gs_src' = Take(gs_data, Len(gs_data) - TermLen)
    /\ UNCHANGED <<gs_len, gs_buf, gs_pushed, gs_data, gs_origin, gs_items>>
    /\ UNCHANGED <<consumerVars, feslVars>>

\* gamespy.rs 130-135: one call of the iterator's next
GsIterNext ==
    /\ gs_pc = "iter"
    /\ LET r == GsNextResult(gs_src)
       IN  /\ gs_src' = r.src
           /\ gs_items' = IF r.tag = "Some" THEN Append(gs_items, r.item)
                          ELSE gs_items
           /\ gs_pc' = CASE r.tag = "Some" -> "iter"
                         [] r.tag = "None" -> "end"
                         [] OTHER -> "panic_next"
    /\ UNCHANGED <<gs_len, gs_buf, gs_pushed, gs_data, gs_origin>>
    /\ UNCHANGED <<consumerVars, feslVars>>

----------------------------------------------------------------------------
(* FESL codec: builder, message, from_read, iterator *)

CH_EQ == 61
CH_NL == 10
NUL == 0
HeaderLen == 12

MaxFeslPairs == 2
MaxBody == 4

\* fesl.rs 12-17: the discriminants of FeslMessageType
SingleClient == 192
SingleServer == 128
MultiClient == 240
MultiServer == 176
FeslTypes == { SingleClient, SingleServer, MultiClient, MultiServer }

\* A u32 at or above 2^31 is held as its two 16-bit halves [hi, lo].
\* fesl.rs 150: (((fesl_type as u32) & 0xf0) << 24) | (id & 0xfffffff); the two
\* operands share no bit, so the | is a sum.
TypeAndId(fesl_type, id) ==
    [ hi |-> ((fesl_type \div 16) * 16) * 256 + ((id \div 65536) % 4096),
      lo |-> id % 65536 ]

\* write_u32::<BigEndian> with the two low bytes first
WriteU32LittleEndianHalves(w) ==
    << w.lo % 256, w.lo \div 256, w.hi % 256, w.hi \div 256 >>

\* fesl.rs 164: write_u32::<BigEndian> of a u32 held as halves
WriteU32Halves(w) ==
    << w.hi \div 256, w.hi % 256, w.lo \div 256, w.lo % 256 >>

\* fesl.rs 165: write_u32::<BigEndian>(len as u32), len below 2^31
WriteU32(n) ==
    << (n \div 16777216) % 256, (n \div 65536) % 256, (n \div 256) % 256,
       n % 256 >>

\* read_u32 taking the last 4 bytes of the slice it is given
ReadU32HalvesOfTail(b) ==
    [ hi |-> b[Len(b) - 3] * 256 + b[Len(b) - 2],
      lo |-> b[Len(b) - 1] * 256 + b[Len(b)] ]

\* fesl.rs 65: BigEndian::read_u32 of a slice: its first 4 bytes, as halves
ReadU32Halves(b) == [ hi |-> b[1] * 256 + b[2], lo |-> b[3] * 256 + b[4] ]

\* fesl.rs 46: BigEndian::read_u32 of 4 bytes (first byte below 0x80 here)
ReadU32(b) == b[1] * 16777216 + b[2] * 65536 + b[3] * 256 + b[4]

RECURSIVE FeslRecords(_)
\* fesl.rs 166-171: every pair as key '=' value '\n'
FeslRecords(buf) ==
    IF Len(buf) = 0 THEN <<>>
    ELSE Head(buf)[1] \o <<CH_EQ>> \o Head(buf)[2] \o <<CH_NL>>
         \o FeslRecords(Tail(buf))

\* fesl.rs 162-173: the bytes build() writes
FeslSerialize(cmd, tid, len, buf) ==
    cmd \o WriteU32Halves(tid) \o WriteU32(len) \o FeslRecords(buf) \o <<NUL>>

\* fesl.rs 55-57: get_cmd
GetCmd(data) ==
    IF Utf8Valid(Take(data, 4)) THEN Take(data, 4) ELSE <<"Utf8Error">>

\* get_type without the & 0xf0
GetTypeNoMask(data) == IF data[5] \in FeslTypes THEN data[5] ELSE -1

\* fesl.rs 59-62: get_type; from_u8 is Some for the four discriminants only
GetType(data) ==
    LET val == (data[5] \div 16) * 16
    IN  IF val \in FeslTypes THEN val ELSE -1

\* fesl.rs 64-66: get_id: read_u32 takes the first 4 bytes of data[4..12]; the
\* mask 0xfffffff clears the top 4 bits, those of data[4]
GetId(data) ==
    LET w == ReadU32Halves(SubSeq(data, 5, 12))
    IN  (w.hi % 4096) * 65536 + w.lo

\* the accessors have not been called
NoGot == [cmd |-> <<>>, type |-> -2, id |-> -2]

\* end() leaving src as it is
FeslEndKeepSrc(src) == src

\* fesl.rs 101-104: end() empties src
FeslEnd(src) == <<>>

\* 0-based index of the last token in s, -1 for None
PositionLast(s, token) ==
    IF \E i \in 1..Len(s) : s[i] = token
    THEN (CHOOSE i \in 1..Len(s) :
              s[i] = token /\ \A j \in (i + 1)..Len(s) : s[j] # token) - 1
    ELSE -1

\* shift_slice cutting at the last token (rposition) instead of the first
FeslShiftSliceLast(src, token) ==
    LET x == PositionLast(src, token)
    IN  IF x < 0
        THEN [tag |-> "Err", err |-> "ExpectedDelimiter", val |-> <<>>,
              src |-> src]
        ELSE [tag |-> "Ok", err |-> "none",
              val |-> Take(src, x), src |-> Drop(src, x + 1)]

\* fesl.rs 83-91: FeslMessageIterator::shift_slice
FeslShiftSlice(src, token) ==
    LET x == Position(src, token)
    IN  IF x < 0
        THEN [tag |-> "Err", err |-> "ExpectedDelimiter", val |-> <<>>,
              src |-> src]
        ELSE [tag |-> "Ok", err |-> "none",
              val |-> Take(src, x), src |-> Drop(src, x + 1)]

\* fesl.rs 93-95: shift_str
FeslShiftStr(src, token) ==
    LET r == FeslShiftSlice(src, token)
    IN  IF r.tag = "Ok" /\ ~Utf8Valid(r.val)
        THEN [tag |-> "Err", err |-> "ExpectedUtf8", val |-> <<>>, src |-> r.src]
        ELSE r

\* fesl.rs 97-99: read: the key up to '=', then the value up to '\n'
FeslRead(src) ==
    LET k == FeslShiftStr(src, CH_EQ)
    IN  IF k.tag # "Ok"
        THEN [tag |-> "Err", err |-> k.err, item |-> ErrItem(k.err), src |-> k.src]
        ELSE LET v == FeslShiftStr(k.src, CH_NL)
             IN  IF v.tag # "Ok"
                 THEN [tag |-> "Err", err |-> v.err, item |-> ErrItem(v.err),
                       src |-> v.src]
                 ELSE [tag |-> "Ok", err |-> "none",
                       item |-> Pair(k.val, v.val), src |-> v.src]

\* fesl.rs 110-119: Iterator::next
FeslNextResult(src) ==
    IF Len(src) = 0
    THEN [tag |-> "None", item |-> ErrItem("none"), src |-> src]
    ELSE IF Len(src) = 1
    THEN LET r == FeslShiftSlice(src, NUL)
         IN  IF r.tag = "Err"
             THEN [tag |-> "Some", item |-> ErrItem(r.err), src |-> FeslEnd(r.src)]
             ELSE [tag |-> "None", item |-> ErrItem("none"), src |-> r.src]
    ELSE LET r == FeslRead(src)
         IN  IF r.tag = "Err"
             THEN [tag |-> "Some", item |-> ErrItem(r.err), src |-> FeslEnd(r.src)]
             ELSE [tag |-> "Some", item |-> r.item, src |-> r.src]

\* ---- inputs
\* "fsys", and a command that is not 4 bytes long
FeslCmds == { <<102, 115, 121, 115>>, <<CH_a, CH_a>> }
FeslIds == { 0, 66051, 268435455, 268435457 }
FeslStrings == { <<>>, <<CH_a>>, <<CH_EQ>>, <<CH_NL>> }

\* a 12-byte header with the given total-length field
RawHeader(len) == <<102, 115, 121, 115>> \o <<SingleClient, 0, 0, 1>> \o WriteU32(len)

\* the total-length fields tried for a body: the true one, undersized ones,
\* one byte more than supplied, one byte less, and one with a high byte set
LenFields(body) ==
    { HeaderLen + Len(body), 0, 11, HeaderLen + Len(body) + 1, 268 }
    \cup (IF Len(body) > 0 THEN { HeaderLen + Len(body) - 1 } ELSE {})

\* headers alone: every top nibble of byte 4 with low nibble 0 and 0xf, three
\* contents of bytes 5..7, and total-length fields 12, 0 and 268
HeaderWires ==
    { <<102, 115, 121, 115>> \o <<n * 16 + l>> \o b \o WriteU32(len) :
        n \in 0..15, l \in { 0, 15 },
        b \in { <<0, 0, 1>>, <<1, 2, 3>>, <<255, 255, 255>> },
        len \in { HeaderLen, 0, 268 } }

RawWires ==
    HeaderWires \cup
    UNION { { RawHeader(len) \o body : len \in LenFields(body) } :
                 body \in SeqsUpTo({CH_a, CH_EQ, CH_NL, NUL} \cup BadBytes, MaxBody) }
    \cup { Take(RawHeader(HeaderLen), n) : n \in { 0, 11 } }

LenField(wire) == ReadU32(SubSeq(wire, 9, 12))

Min(a, b) == IF a < b THEN a ELSE b

\* fesl.rs 144-154: FeslMessageBuilder::new
FeslNew ==
    /\ fesl_pc = "start"
    /\ \E cmd \in FeslCmds, fesl_type \in FeslTypes, id \in FeslIds :
          /\ fesl_in' = [cmd |-> cmd, type |-> fesl_type, id |-> id]
          /\ IF Len(cmd) # 4
             THEN /\ fesl_pc' = "new_err"
                  /\ UNCHANGED <<fesl_cmd, type_and_id, fesl_len, fesl_buf>>
             ELSE /\ fesl_pc' = "builder"
                  /\ fesl_cmd' = cmd
                  /\ type_and_id' = TypeAndId(fesl_type, id)
                  /\ fesl_len' = 13
                  /\ fesl_buf' = <<>>
    /\ UNCHANGED <<fesl_wire, fesl_data, fesl_origin, fesl_src, fesl_items>>
    /\ UNCHANGED <<consumerVars, gsVars, fesl_got>>

\* fesl.rs 156-159: push
FeslPush ==
    /\ fesl_pc = "builder"
    /\ Len(fesl_buf) < MaxFeslPairs
    /\ \E key \in FeslStrings, value \in FeslStrings :
          /\ fesl_len' = fesl_len + Len(key) + 1 + Len(value) + 1
          /\ fesl_buf' = Append(fesl_buf, <<key, value>>)
    /\ UNCHANGED <<fesl_cmd, type_and_id, fesl_in, fesl_wire, fesl_data,
                   fesl_origin, fesl_src, fesl_items, fesl_pc>>
    /\ UNCHANGED <<consumerVars, gsVars, fesl_got>>

\* fesl.rs 161-175: build
FeslBuild ==
    /\ fesl_pc = "builder"
    /\ fesl_data' = FeslSerialize(fesl_cmd, type_and_id, fesl_len, fesl_buf)
    /\ fesl_origin' = "build"
    /\ fesl_pc' = "built"
    /\ UNCHANGED <<fesl_cmd, type_and_id, fesl_len, fesl_buf, fesl_in,
                   fesl_wire, fesl_src, fesl_items>>
    /\ UNCHANGED <<consumerVars, gsVars, fesl_got>>

\* fesl.rs 68-70: as_bytes of the built message become the reader's content
FeslWrite ==
    /\ fesl_pc = "built"
    /\ fesl_wire' = fesl_data
    /\ fesl_data' = NoBytes
    /\ fesl_origin' = "wire_build"
    /\ fesl_pc' = "wire"
    /\ UNCHANGED <<fesl_cmd, type_and_id, fesl_len, fesl_buf, fesl_in,
                   fesl_src, fesl_items>>
    /\ fesl_got' = NoGot
    /\ UNCHANGED <<consumerVars, gsVars>>

\* a peer's bytes become the reader's content
FeslRawWire ==
    /\ fesl_pc = "start"
    /\ fesl_wire' \in RawWires
    /\ fesl_origin' = "wire_raw"
    /\ fesl_pc' = "wire"
    /\ UNCHANGED <<fesl_cmd, type_and_id, fesl_len, fesl_buf, fesl_in,
                   fesl_data, fesl_src, fesl_items>>
    /\ UNCHANGED <<consumerVars, gsVars, fesl_got>>

\* fesl.rs 43-53: from_read when len - 12 does not underflow: read_exact fails
\* on fewer than 12 bytes; take(len - 12).read_to_end stops at the limit or at
\* end of data, whichever comes first, and is Ok in both cases.
FeslFromRead ==
    /\ fesl_pc = "wire"
    /\ IF Len(fesl_wire) < HeaderLen
       THEN /\ fesl_pc' = "read_err"
            /\ UNCHANGED fesl_data
       ELSE /\ LenField(fesl_wire) >= HeaderLen
            /\ fesl_data' = Take(fesl_wire,
                                 Min(LenField(fesl_wire), Len(fesl_wire)))
            /\ fesl_pc' = "message"
    /\ UNCHANGED <<fesl_cmd, type_and_id, fesl_len, fesl_buf, fesl_in,
                   fesl_wire, fesl_origin, fesl_src, fesl_items>>
    /\ UNCHANGED <<consumerVars, gsVars, fesl_got>>

\* fesl.rs 49: len - 12 with len < 12, overflow checks on: the subtraction panics
FeslFromReadUnderflowPanic ==
    /\ fesl_pc = "wire"
    /\ Len(fesl_wire) >= HeaderLen
    /\ LenField(fesl_wire) < HeaderLen
    /\ fesl_pc' = "panic_from_read"
    /\ UNCHANGED <<fesl_cmd, type_and_id, fesl_len, fesl_buf, fesl_in,
                   fesl_wire, fesl_data, fesl_origin, fesl_src, fesl_items>>
    /\ UNCHANGED <<consumerVars, gsVars, fesl_got>>

\* fesl.rs 49: len - 12 with len < 12, overflow checks off: the subtraction
\* wraps to a limit beyond any stream and read_to_end reads to end of data
FeslFromReadUnderflowWrap ==
    /\ fesl_pc = "wire"
    /\ Len(fesl_wire) >= HeaderLen
    /\ LenField(fesl_wire) < HeaderLen
    /\ fesl_data' = fesl_wire
    /\ fesl_pc' = "message"
    /\ UNCHANGED <<fesl_cmd, type_and_id, fesl_len, fesl_buf, fesl_in,
                   fesl_wire, fesl_origin, fesl_src, fesl_items>>
    /\ UNCHANGED <<consumerVars, gsVars, fesl_got>>

\* fesl.rs 45, 49: the `?` on a read of the stream that reports an error
FeslFromReadIoError ==
    /\ fesl_pc = "wire"
    /\ fesl_pc' = "read_err"
    /\ UNCHANGED <<fesl_cmd, type_and_id, fesl_len, fesl_buf, fesl_in,
                   fesl_wire, fesl_data, fesl_origin, fesl_src, fesl_items>>
    /\ UNCHANGED <<consumerVars, gsVars, fesl_got>>

\* fesl.rs 55-66: get_cmd, get_type and get_id on a message
FeslGet ==
    /\ fesl_pc \in { "built", "message" }
    /\ fesl_got = NoGot
    /\ fesl_got' = [ cmd |-> GetCmd(fesl_data), type |-> GetType(fesl_data),
                     id |-> GetId(fesl_data) ]
    /\ UNCHANGED <<fesl_cmd, type_and_id, fesl_len, fesl_buf, fesl_in,
                   fesl_wire, fesl_data, fesl_origin, fesl_src, fesl_items,
                   fesl_pc>>
    /\ UNCHANGED <<consumerVars, gsVars>>

\* fesl.rs 126-130: into_iter
FeslIntoIter ==
    /\ fesl_pc \in { "built", "message" }
    /\ Len(fesl_data) >= HeaderLen
    /\ fesl_src' = Drop(fesl_data, HeaderLen)
    /\ fesl_pc' = "iter"
    /\ UNCHANGED <<fesl_cmd, type_and_id, fesl_len, fesl_buf, fesl_in,
                   fesl_wire, fesl_data, fesl_origin, fesl_items>>
    /\ UNCHANGED <<consumerVars, gsVars, fesl_got>>

\* fesl.rs 110-119: one call of the iterator's next
FeslIterNext ==
    /\ fesl_pc = "iter"
    /\ LET r == FeslNextResult(fesl_src)
       IN  /\ fesl_src' = r.src
           /\ fesl_items' = IF r.tag = "Some" THEN Append(fesl_items, r.item)
                            ELSE fesl_items
           /\ fesl_pc' = IF r.tag = "Some" THEN "iter" ELSE "end"
    /\ UNCHANGED <<fesl_cmd, type_and_id, fesl_len, fesl_buf, fesl_in,
                   fesl_wire, fesl_data, fesl_origin>>
    /\ UNCHANGED <<consumerVars, gsVars, fesl_got>>

----------------------------------------------------------------------------
(* Initial states and specifications *)

ConsumerIdle ==
    /\ filled = 0
    /\ consumed = 0
    /\ pc = "idle"
    /\ msg = <<>>
    /\ rank = 0
    /\ out = <<>>
    /\ ret = "pending"
    /\ eof = FALSE
    /\ carried = FALSE
    /\ readErr = FALSE

GsIdle ==
    /\ gs_len = 7
    /\ gs_buf = <<>>
    /\ gs_pushed = <<>>
    /\ gs_data = NoBytes
    /\ gs_origin = "none"
    /\ gs_src = <<>>
    /\ gs_items = <<>>
    /\ gs_pc = "builder"

FeslIdle ==
    /\ fesl_cmd = <<>>
    /\ type_and_id = [hi |-> 0, lo |-> 0]
    /\ fesl_len = 0
    /\ fesl_buf = <<>>
    /\ fesl_in = [cmd |-> <<>>, type |-> 0, id |-> 0]
    /\ fesl_wire = NoBytes
    /\ fesl_data = NoBytes
    /\ fesl_origin = "none"
    /\ fesl_src = <<>>
    /\ fesl_items = <<>>
    /\ fesl_got = NoGot
    /\ fesl_pc = "start"

\* the framer on a stream of the environment's choosing
Init == stream \in Streams /\ ConsumerIdle /\ GsIdle /\ FeslIdle

Next ==
    \/ Call
    \/ LoopBuffered
    \/ LoopRead
    \/ LoopEof
    \/ LoopReadError

Spec == Init /\ [][Next]_vars

\* GameSpyPacketBuilder::new (gamespy.rs 156-161): len 7, buf empty
InitGameSpy == stream = <<>> /\ ConsumerIdle /\ GsIdle /\ FeslIdle

NextGameSpy ==
    \/ GsPush
    \/ GsBuild
    \/ GsFromBox
    \/ GsIntoIter
    \/ GsIterNext

SpecGameSpy == InitGameSpy /\ [][NextGameSpy]_vars

\* a packet is built, written to a connection and framed at the other end
InitWire == stream = <<>> /\ ConsumerIdle /\ GsIdle /\ FeslIdle

NextWire ==
    \/ GsPush
    \/ GsBuild
    \/ GsSend
    \/ WireCall
    \/ LoopBuffered
    \/ LoopRead
    \/ LoopEof
    \/ LoopReadError

SpecWire == InitWire /\ [][NextWire]_vars

InitFesl == stream = <<>> /\ ConsumerIdle /\ GsIdle /\ FeslIdle

NextFesl ==
    \/ FeslNew
    \/ FeslPush
    \/ FeslBuild
    \/ FeslWrite
    \/ FeslRawWire
    \/ FeslFromRead
    \/ FeslFromReadUnderflowPanic
    \/ FeslFromReadUnderflowWrap
    \/ FeslFromReadIoError
    \/ FeslGet
    \/ FeslIntoIter
    \/ FeslIterNext

SpecFesl == InitFesl /\ [][NextFesl]_vars

----------------------------------------------------------------------------
(* Properties of the streaming framer (Spec) *)

\* gamespy.rs 60-91: the packets successive next() calls return when every
\* fill_buf() hands over all the bytes that are left of s in one chunk
RECURSIVE OneChunkPackets(_)
OneChunkPackets(s) ==
    LET r == ScanChunk(s, 0)
    IN  IF r.rank >= TermLen
        THEN <<Take(s, r.i)>> \o OneChunkPackets(Drop(s, r.i))
        ELSE <<>>

\* C1: once a read has supplied zero bytes before the terminator was matched,
\* the call has ended and returned None.
C1_EofReturnsNone == eof => (pc = "idle" /\ ret = "None")

\* C2: whatever the chunks, the packets returned so far are the first packets
\* of the one-chunk run over the same stream, they are all of them once the
\* stream is consumed, and each ends with its own terminator.
C2_ChunkingIndependent ==
    /\ IsPrefix(out, OneChunkPackets(stream))
    /\ consumed = Len(stream) => out = OneChunkPackets(stream)
    /\ \A k \in 1..Len(out) : EndsWithTerm(out[k])

\* C2 witness: two packets returned, a terminator completed across a chunk
\* boundary, the stream consumed.
C2_Witness == carried /\ Len(out) >= 2 /\ consumed = Len(stream)

RECURSIVE Concat(_)
Concat(packets) ==
    IF Len(packets) = 0 THEN <<>>
    ELSE Head(packets) \o Concat(Tail(packets))

\* the terminator occupies s[j-6..j]
TermEndsAt(s, j) == j >= TermLen /\ SubSeq(s, j - TermLen + 1, j) = TERM

\* C13: every packet returned ends with the first occurrence of the terminator
\* in the bytes that were not yet consumed when its call began, and once the
\* whole stream is consumed no terminator is left behind the returned packets.
C13_AutomatonIsExactSearch ==
    /\ IsPrefix(Concat(out), stream)
    /\ \A k \in 1..Len(out) :
          /\ TermEndsAt(out[k], Len(out[k]))
          /\ \A j \in 1..(Len(out[k]) - 1) : ~TermEndsAt(out[k], j)
    /\ (pc \in { "idle", "loop" } /\ consumed = Len(stream)) =>
          LET rest == Drop(stream, Len(Concat(out)))
          IN  \A j \in 1..Len(rest) : ~TermEndsAt(rest, j)

\* C13 witness: a packet found after a failed partial match, `\fina\final\`.
C13_Witness ==
    \E k \in 1..Len(out) : out[k] = <<BSLASH, CH_f, CH_i, CH_n, CH_a>> \o TERM

\* C14: the packets returned so far, followed inside a call by the
\* accumulator, are exactly the bytes consumed from the reader, which never
\* run ahead of the bytes read.
C14_NoByteLostOrAdded ==
    /\ consumed <= filled
    /\ filled <= Len(stream)
    /\ pc = "idle" => Concat(out) = Take(stream, consumed)
    /\ pc = "loop" => Concat(out) \o msg = Take(stream, consumed)

\* C14 witness: two packets returned, the second ending in the middle of a
\* chunk, whose remaining bytes are still in the reader.
C14_Witness == pc = "idle" /\ Len(out) = 2 /\ consumed < filled

\* the length of the longest proper prefix of the terminator that ends s
MatchLen(s) ==
    CHOOSE r \in 0..(TermLen - 1) :
        /\ r <= Len(s) /\ Drop(s, Len(s) - r) = Take(TERM, r)
        /\ \A q \in (r + 1)..(TermLen - 1) :
              ~(q <= Len(s) /\ Drop(s, Len(s) - q) = Take(TERM, q))

\* C15 (state part): the rank stays in 0..7 and never indexes the terminator out of bounds;
\* inside a call it is below 7 and is the terminator prefix the accumulator
\* ends with, so it is 0 on an empty accumulator and does not depend on where
\* the chunks were cut; a call has returned a packet exactly when the rank is
\* 7; and every call starts with rank 0 and an empty accumulator.
\* the state part of C15
C15_StateInv ==
    /\ rank \in 0..TermLen
    /\ pc # "panic_index"
    /\ pc = "loop" => (rank < TermLen /\ rank = MatchLen(msg))
    /\ ret = "Some" <=> rank = TermLen

\* C15: the state part above in every state, and every entry of next() sets
\* rank to 0 and empties the accumulator.
C15_ScanState ==
    /\ []C15_StateInv
    /\ [][(pc = "idle" /\ pc' = "loop") => (rank' = 0 /\ msg' = <<>>)]_vars

\* C15 witness: inside a second call, a chunk has ended in the middle of a
\* terminator.
C15_Witness == pc = "loop" /\ Len(out) >= 1 /\ rank = 4 /\ consumed = filled

\* C10: after a read error, next() has returned an error outcome to its caller
\* and nothing has panicked.
C10_ReadErrorReturned == readErr => (pc = "idle" /\ ret = "Err")

----------------------------------------------------------------------------
(* Properties of the GameSpy packet codec (SpecGameSpy) *)

Has(s, b) == \E i \in 1..Len(s) : s[i] = b

GsExpected(pushed) ==
    [ i \in 1..Len(pushed) |-> Pair(pushed[i][1], pushed[i][2]) ]

NoBackslashPairs(pushed) ==
    \A i \in 1..Len(pushed) :
        ~Has(pushed[i][1], BSLASH) /\ ~Has(pushed[i][2], BSLASH)

\* C4: iterating a packet built from backslash-free pairs yields the pushed
\* pairs in order, no error item, no panic, and then the end of iteration.
C4_GameSpyRoundTrip ==
    (gs_origin = "build" /\ NoBackslashPairs(gs_pushed)) =>
        /\ gs_pc \notin { "panic_into_iter", "panic_next" }
        /\ IsPrefix(gs_items, GsExpected(gs_pushed))
        /\ gs_pc = "end" => gs_items = GsExpected(gs_pushed)

\* C4 witness: the iteration of a built packet of two pairs, with an empty key
\* and an empty last value, has ended.
C4_Witness ==
    /\ gs_origin = "build"
    /\ gs_pc = "end"
    /\ NoBackslashPairs(gs_pushed)
    /\ Len(gs_pushed) = 2
    /\ gs_pushed[1][1] = <<>>
    /\ gs_pushed[2][2] = <<>>

\* C6: GameSpyPacketIterator::next never aborts: every call yields a pair, an
\* error item or the end of iteration.
C6_IterNextNeverAborts == gs_pc # "panic_next"

\* C7: every GameSpyPacket holds at least 7 bytes, the last 7 being the
\* terminator, and taking its iterator view is defined.
C7_PacketEndsWithTerm ==
    /\ gs_data # NoBytes => EndsWithTerm(gs_data)
    /\ gs_pc # "panic_into_iter"

----------------------------------------------------------------------------
(* Properties of the FESL codec (SpecFesl) *)

FeslExpected(buf) == [ i \in 1..Len(buf) |-> Pair(buf[i][1], buf[i][2]) ]

\* the arguments C3 speaks of: id below 2^28, no '=' in a key, no newline in a
\* value (the command is 4 bytes and the type one of the four once a builder
\* exists)
FeslValidInputs ==
    /\ fesl_in.id < 268435456
    /\ \A i \in 1..Len(fesl_buf) :
          ~Has(fesl_buf[i][1], CH_EQ) /\ ~Has(fesl_buf[i][2], CH_NL)

\* C3: a message built from valid inputs and read back by from_read gives back
\* the command, type and id, and iterates to exactly the pushed pairs in order.
C3_FeslRoundTrip ==
    (fesl_origin = "wire_build" /\ FeslValidInputs) =>
        /\ fesl_pc # "panic_from_read"
        /\ fesl_pc \in { "message", "iter", "end" } =>
              /\ GetCmd(fesl_data) = fesl_in.cmd
              /\ GetType(fesl_data) = fesl_in.type
              /\ GetId(fesl_data) = fesl_in.id
        /\ fesl_pc \in { "iter", "end" } =>
              IsPrefix(fesl_items, FeslExpected(fesl_buf))
        /\ fesl_pc = "end" => fesl_items = FeslExpected(fesl_buf)

\* C3 witness: a round trip of two pairs with the largest id, a newline in a
\* key and an '=' in a value, iterated to its end.
C3_Witness ==
    /\ fesl_origin = "wire_build"
    /\ fesl_pc = "end"
    /\ FeslValidInputs
    /\ fesl_in.id = 268435455
    /\ Len(fesl_buf) = 2
    /\ fesl_buf[1] = << <<CH_NL>>, <<CH_EQ>> >>

FeslBody == Drop(fesl_data, HeaderLen)

CountByte(s, b) == Cardinality({ i \in 1..Len(s) : s[i] = b })

\* the body is newline-ended lines that each hold an '=', followed by a last
\* record without its newline (anything but the lone terminator byte), all text
LastRecordLacksNewline(b) ==
    /\ Utf8Valid(b)
    /\ \E n \in 0..(Len(b) - 1) :
          /\ n = 0 \/ b[n] = CH_NL
          /\ ~Has(Drop(b, n), CH_NL)
          /\ Drop(b, n) # <<NUL>>
          /\ \A i \in 1..n :
                b[i] = CH_NL =>
                    \E j \in 1..(i - 1) :
                        /\ b[j] = CH_EQ
                        /\ \A k \in j..i - 1 : b[k] # CH_NL

\* C5: the items hold at most one error, it is the last item, and after it the
\* iterator is empty, so every later next() is None; a body whose last record
\* lacks its newline gives its well-formed records and then one
\* ExpectedDelimiter.
C5_PoisonOnFirstError ==
    /\ \A i \in 1..Len(fesl_items) :
          fesl_items[i].tag = "Err" =>
              /\ i = Len(fesl_items)
              /\ fesl_src = <<>>
              /\ FeslNextResult(fesl_src).tag = "None"
    /\ (fesl_pc = "end" /\ LastRecordLacksNewline(FeslBody)) =>
          /\ Len(fesl_items) = CountByte(FeslBody, CH_NL) + 1
          /\ \A i \in 1..(Len(fesl_items) - 1) : fesl_items[i].tag = "Pair"
          /\ fesl_items[Len(fesl_items)] = ErrItem("ExpectedDelimiter")

\* C5 witness: a well-formed record, then a record without newline, iterated to
\* the end: one pair, one error.
C5_Witness ==
    /\ fesl_pc = "end"
    /\ LastRecordLacksNewline(FeslBody)
    /\ Len(fesl_items) = 2
    /\ fesl_items[2].tag = "Err"
    /\ Len(FeslBody) >= 4

\* C8: from_read on a header whose total length is below 12 returns an error.
C8_UndersizedLengthRejected ==
    (/\ fesl_origin = "wire_raw"
     /\ fesl_pc # "wire"
     /\ Len(fesl_wire) >= HeaderLen
     /\ LenField(fesl_wire) < HeaderLen) => fesl_pc = "read_err"

\* C9: every message from_read returns is as long as its length field says.
C9_NoTruncatedMessage ==
    (/\ fesl_origin \in { "wire_raw", "wire_build" }
     /\ fesl_pc \in { "message", "iter", "end" }
     /\ LenField(fesl_data) >= HeaderLen) =>
        Len(fesl_data) = LenField(fesl_data)

\* C11: get_id returns the big-endian value of bytes 4..8 with the top 4 bits
\* cleared, a value below 2^28, whatever the type nibble and the length field
\* are, on every message there is (each holds its 12 header bytes).
C11_GetIdMasks ==
    fesl_got # NoGot =>
        /\ Len(fesl_data) >= HeaderLen
        /\ fesl_got.id = (fesl_data[5] % 16) * 16777216 + fesl_data[6] * 65536
                         + fesl_data[7] * 256 + fesl_data[8]
        /\ fesl_got.id >= 0
        /\ fesl_got.id < 268435456

\* C11 witness: get_id was called on a message with an invalid type nibble, all
\* id bits set and a length field that is not the buffer's length.
C11_Witness ==
    /\ fesl_got # NoGot
    /\ fesl_got.type = -1
    /\ fesl_got.id = 268435455
    /\ LenField(fesl_data) # Len(fesl_data)

\* C12: get_type returns SingleClient, SingleServer, MultiClient, MultiServer
\* exactly for the top nibbles 0xC, 0x8, 0xF, 0xB of byte 4 and InvalidType
\* (-1) for every other nibble, whatever the low nibble is.
C12_GetTypeClosed ==
    fesl_got # NoGot =>
        LET nibble == fesl_data[5] \div 16
        IN  fesl_got.type = CASE nibble = 12 -> SingleClient
                              [] nibble = 8 -> SingleServer
                              [] nibble = 15 -> MultiClient
                              [] nibble = 11 -> MultiServer
                              [] OTHER -> -1

\* C12 witness: get_type returned MultiServer on a byte 4 of 0xbf.
C12_Witness ==
    /\ fesl_got # NoGot
    /\ fesl_got.type = MultiServer
    /\ fesl_data[5] = 191

RECURSIVE IsRecords(_)
\* s is zero or more records: a key without '=', '=', a value without newline,
\* newline
IsRecords(s) ==
    IF s = <<>> THEN TRUE
    ELSE LET p == Position(s, CH_EQ)
         IN  IF p < 0 THEN FALSE
             ELSE LET q == Position(Drop(s, p + 1), CH_NL)
                  IN  IF q < 0 THEN FALSE
                      ELSE IsRecords(Drop(s, p + 1 + q + 1))

\* the body is text records followed by exactly one 0x00 byte
ProperBody(b) ==
    /\ Len(b) >= 1
    /\ b[Len(b)] = NUL
    /\ Utf8Valid(b)
    /\ IsRecords(Take(b, Len(b) - 1))

NoErrorItem == \A i \in 1..Len(fesl_items) : fesl_items[i].tag = "Pair"

\* C16: the iteration of a message as long as its length field says ends
\* without an error item if and only if the body is records followed by exactly
\* one 0x00 byte.
C16_CleanEndIffTerminated ==
    (fesl_pc = "end" /\ LenField(fesl_data) = Len(fesl_data)) =>
        (NoErrorItem <=> ProperBody(FeslBody))

FirstIndex(s, b) ==
    CHOOSE i \in 1..Len(s) : s[i] = b /\ \A j \in 1..(i - 1) : s[j] # b

\* s begins with a text record: an '=', and a newline somewhere after it
StartsWithRecord(s) ==
    /\ Has(s, CH_EQ)
    /\ Has(Drop(s, FirstIndex(s, CH_EQ)), CH_NL)
    /\ Utf8Valid(Take(s, FirstIndex(s, CH_EQ)
                         + FirstIndex(Drop(s, FirstIndex(s, CH_EQ)), CH_NL)))

ItemPairs == [ i \in 1..Len(fesl_items) |->
                 <<fesl_items[i].key, fesl_items[i].value>> ]

\* C17: the pairs yielded so far, written back as key '=' value newline, and
\* the bytes still to read make up the body, no key holds an '=' and no value a
\* newline; and on bytes that begin with a record next() yields the bytes before
\* the first '=' as key, the bytes from there to the next newline as value, and
\* goes on right after that newline.
C17_FirstEqIsBoundary ==
    /\ (fesl_pc = "iter" /\ NoErrorItem) =>
          /\ FeslRecords(ItemPairs) \o fesl_src = FeslBody
          /\ \A i \in 1..Len(fesl_items) :
                /\ ~Has(fesl_items[i].key, CH_EQ)
                /\ ~Has(fesl_items[i].value, CH_NL)
    /\ (fesl_pc = "iter" /\ StartsWithRecord(fesl_src)) =>
          LET e == FirstIndex(fesl_src, CH_EQ)
              n == FirstIndex(Drop(fesl_src, e), CH_NL)
              r == FeslNextResult(fesl_src)
          IN  /\ r.tag = "Some"
              /\ r.item = Pair(Take(fesl_src, e - 1),
                               SubSeq(fesl_src, e + 1, e + n - 1))
              /\ r.src = Drop(fesl_src, e + n)

\* C17 witness: two pairs yielded, the first with the value "=".
C17_Witness ==
    /\ fesl_pc = "iter"
    /\ Len(fesl_items) = 2
    /\ NoErrorItem
    /\ fesl_items[1].value = <<CH_EQ>>

----------------------------------------------------------------------------
(* Builder and framer together (SpecWire) *)

FinalWord == <<CH_f, CH_i, CH_n, CH_a, CH_l>>

NoFinalWord(pushed) ==
    \A i \in 1..Len(pushed) :
        pushed[i][1] # FinalWord /\ pushed[i][2] # FinalWord

\* the framer returns the sent packet whole: nothing but it, and it once the
\* stream is consumed
FramedAsBuilt ==
    /\ IsPrefix(out, <<gs_data>>)
    /\ consumed = Len(stream) => out = <<gs_data>>

\* C18 as stated: every packet built from backslash-free pairs, the word
\* `final` among the keys and values included, is framed as exactly one packet
\* equal to the built bytes.
C18_BuiltPacketFramedWhole ==
    (gs_pc = "sent" /\ NoBackslashPairs(gs_pushed)) => FramedAsBuilt

\* C18 amended: the same for backslash-free pairs none of whose keys and values
\* is the word `final`.
C18_BuiltPacketFramedWholeNoFinal ==
    (gs_pc = "sent" /\ NoBackslashPairs(gs_pushed) /\ NoFinalWord(gs_pushed))
        => FramedAsBuilt

\* C18 witness: a packet of two such pairs was read in several chunks, one cut
\* inside the terminator, and came out whole.
C18_Witness ==
    /\ gs_pc = "sent"
    /\ Len(gs_pushed) = 2
    /\ NoBackslashPairs(gs_pushed)
    /\ NoFinalWord(gs_pushed)
    /\ carried
    /\ out = <<gs_data>>

=============================================================================
